---- MODULE Spec2Model ----
(***************************************************************************)
(* Model of DobsonianDSC.ino: the BBox command dispatcher                  *)
(* (processBBoxCommand), the Bluetooth serial adapter (attendBTRequests),  *)
(* the TCP session table (attendTcpRequests) and the control loop (loop).  *)
(* Text is modelled as sequences of one-character strings.                 *)
(***************************************************************************)
EXTENDS Integers, Sequences, FiniteSets, TLC

\* ------------------------------------------------------------ constants

MAX_SRV_CLIENTS == 3
MAX_REQUEST_LENGTH == 30
AZIMUTH_RES == 1800
ALTITUDE_RES == 22140
AZIMUTH_START == 0
ALTITUDE_START == 5624
\* the size argument of the two snprintf calls ('G' and 'H')
SNPRINTF_SIZE == 20
\* char response[30] of both handlers
RESPONSE_SIZE == 30

\* ------------------------------------------------------------ bounds

\* encoder ticks during one run
MaxTicks == 2
\* encoder ticks, and requests, in a run that has every kind of event
MaxFrame == 1
\* the largest |hi| of a count, in units of LIMB ticks
MaxHigh == 10000
\* request chunks that arrive on the transports during one run
MaxArrivals == 2
\* TCP connections attempted during one run
MaxConns == 4
\* connections waiting on the listener at the same time
MaxPending == 2
\* argument bytes beyond MAX_REQUEST_LENGTH in the oversized request
MaxExtra == 2

\* ------------------------------------------------------------ text

TAB == "\t"
NL == "\n"
CR == "\r"

Digits == <<"0", "1", "2", "3", "4", "5", "6", "7", "8", "9">>
DigitSet == {Digits[i] : i \in 1..10}
Whitespace == {" ", TAB, NL, CR}

DigitChar(d) == Digits[d + 1]
DigitVal(c) == CHOOSE d \in 0..9 : Digits[d + 1] = c

Min(a, b) == IF a < b THEN a ELSE b

\* the first n elements of s (all of s when it is shorter)
Take(s, n) == SubSeq(s, 1, Min(Len(s), n))
\* s without its first n elements
Drop(s, n) == SubSeq(s, Min(Len(s), n) + 1, Len(s))

RECURSIVE FmtNat(_)
FmtNat(n) == IF n < 10 THEN <<DigitChar(n)>>
             ELSE FmtNat(n \div 10) \o <<DigitChar(n % 10)>>

\* printf's %d and itoa(v, buf, 10): decimal, '-' for negatives
FmtInt(n) == IF n < 0 THEN <<"-">> \o FmtNat(0 - n) ELSE FmtNat(n)

\* The encoder counts are int64_t, wider than the integers of the model
\* checker: a count is held as hi * LIMB + lo with |lo| < LIMB and hi and lo
\* never of opposite signs.
LIMB == 1000000000

\* the int64_t of an int
Int64(n) ==
  IF n < 0 THEN [hi |-> 0 - ((0 - n) \div LIMB), lo |-> 0 - ((0 - n) % LIMB)]
  ELSE [hi |-> n \div LIMB, lo |-> n % LIMB]

\* w + d for one tick d of -1 or 1
Add64(w, d) ==
  LET lo == w.lo + d
  IN IF lo = LIMB THEN [hi |-> w.hi + 1, lo |-> 0]
     ELSE IF lo = 0 - LIMB THEN [hi |-> w.hi - 1, lo |-> 0]
     ELSE IF w.hi > 0 /\ lo < 0 THEN [hi |-> w.hi - 1, lo |-> lo + LIMB]
     ELSE IF w.hi < 0 /\ lo > 0 THEN [hi |-> w.hi + 1, lo |-> lo - LIMB]
     ELSE [hi |-> w.hi, lo |-> lo]

\* the digits of n, with zeros in front up to width characters
RECURSIVE ZeroPad(_, _)
ZeroPad(ds, width) == IF Len(ds) >= width THEN ds ELSE ZeroPad(<<"0">> \o ds, width)

\* the decimal digits of LIMB - 1
LimbDigits == Len(FmtNat(LIMB - 1))

\* printf's %lld
FmtLL(w) ==
  IF w.hi = 0 THEN FmtInt(w.lo)
  ELSE (IF w.hi < 0 THEN <<"-">> ELSE <<>>)
         \o FmtNat(IF w.hi < 0 THEN 0 - w.hi ELSE w.hi)
         \o ZeroPad(FmtNat(IF w.lo < 0 THEN 0 - w.lo ELSE w.lo), LimbDigits)

RECURSIVE SkipWs(_)
SkipWs(s) == IF s # <<>> /\ Head(s) \in Whitespace THEN SkipWs(Tail(s)) ELSE s

\* the longest all-digit prefix of s
RECURSIVE DigitRun(_)
DigitRun(s) == IF s # <<>> /\ Head(s) \in DigitSet
               THEN <<Head(s)>> \o DigitRun(Tail(s)) ELSE <<>>

RECURSIVE NatOf(_)
NatOf(ds) == IF ds = <<>> THEN 0
             ELSE NatOf(SubSeq(ds, 1, Len(ds) - 1)) * 10 + DigitVal(ds[Len(ds)])

\* one %d conversion of scanf (and atol): leading white space is skipped, an
\* optional sign, then at least one digit; rest is the unread input
ScanInt(s) ==
  LET t == SkipWs(s)
      signed == t # <<>> /\ Head(t) \in {"-", "+"}
      u == IF signed THEN Tail(t) ELSE t
      ds == DigitRun(u)
  IN IF ds = <<>>
     THEN [ok |-> FALSE, val |-> 0, rest |-> s]
     ELSE [ok |-> TRUE,
           val |-> IF signed /\ Head(t) = "-" THEN 0 - NatOf(ds) ELSE NatOf(ds),
           rest |-> Drop(u, Len(ds))]

\* sscanf(details, "%d,%d", &azRes, &altRes): n is the number of conversions
\* (EOF, -1, when the input ends before the first one)
Sscanf(details) ==
  LET a == ScanInt(details)
  IN IF ~a.ok
     THEN [n |-> IF SkipWs(details) = <<>> THEN 0 - 1 ELSE 0, az |-> 0, alt |-> 0]
     ELSE IF a.rest = <<>> \/ Head(a.rest) # ","
          THEN [n |-> 1, az |-> a.val, alt |-> 0]
          ELSE LET b == ScanInt(Tail(a.rest))
               IN IF b.ok THEN [n |-> 2, az |-> a.val, alt |-> b.val]
                  ELSE [n |-> 1, az |-> a.val, alt |-> 0]

\* snprintf(buf, size, ...): at most size-1 characters are stored
Snprintf(size, text) == Take(text, size - 1)

\* Print::println(const char*): the text followed by "\r\n"
Println(text) == text \o <<CR, NL>>

\* ------------------------------------------------------------ configuration

\* the entries of params, in order
ConfKeys == <<"ssid", "pwd", "btname", "azsteps", "azstart", "alsteps",
             "alstart", "flpaz", "flpalt", "apikey", "userkey">>

\* the entry names as text
KeyText == [ssid |-> <<"s", "s", "i", "d">>,
            pwd |-> <<"p", "w", "d">>,
            btname |-> <<"b", "t", "n", "a", "m", "e">>,
            azsteps |-> <<"a", "z", "s", "t", "e", "p", "s">>,
            azstart |-> <<"a", "z", "s", "t", "a", "r", "t">>,
            alsteps |-> <<"a", "l", "s", "t", "e", "p", "s">>,
            alstart |-> <<"a", "l", "s", "t", "a", "r", "t">>,
            flpaz |-> <<"f", "l", "p", "a", "z">>,
            flpalt |-> <<"f", "l", "p", "a", "l", "t">>,
            apikey |-> <<"a", "p", "i", "k", "e", "y">>,
            userkey |-> <<"u", "s", "e", "r", "k", "e", "y">>]

\* the values of the form's defaults
DefaultConf == [ssid |-> <<>>, pwd |-> <<>>,
                btname |-> <<"T", "e", "l", "e", "s", "c", "o", "p", "e">>,
                azsteps |-> FmtInt(AZIMUTH_RES), azstart |-> FmtInt(AZIMUTH_START),
                alsteps |-> FmtInt(ALTITUDE_RES), alstart |-> FmtInt(ALTITUDE_START),
                flpaz |-> <<"1">>, flpalt |-> <<"1">>,
                apikey |-> <<>>, userkey |-> <<>>]

\* conf.getInt(key): the stored text read as a decimal number, 0 when it is none
GetInt(cf, key) == ScanInt(cf[key]).val

\* conf.setValue(key, text)
SetValue(cf, key, text) == [cf EXCEPT ![key] = text]

\* ------------------------------------------------------------ dispatcher

\* 'Q' answering with the counts reduced modulo the default resolutions
QResponseModulo(az, alt) ==
  (IF az.hi = 0 THEN FmtInt(az.lo % AZIMUTH_RES) ELSE FmtLL(az)) \o <<TAB>>
    \o (IF alt.hi = 0 THEN FmtInt(alt.lo % ALTITUDE_RES) ELSE FmtLL(alt)) \o <<TAB, NL>>

\* sprintf(response, "%lld\t%lld\t\n", ...): all of the text is written
QResponse(az, alt) == FmtLL(az) \o <<TAB>> \o FmtLL(alt) \o <<TAB, NL>>

GResponse(cf) ==
  Snprintf(SNPRINTF_SIZE,
           FmtInt(GetInt(cf, "azsteps")) \o <<"-">> \o FmtInt(GetInt(cf, "alsteps")) \o <<NL>>)

HResponse(cf) ==
  Snprintf(SNPRINTF_SIZE,
           FmtInt(GetInt(cf, "azsteps")) \o <<TAB>> \o FmtInt(GetInt(cf, "alsteps"))
             \o <<TAB, NL>>)

OkResponse == <<"O", "K", NL>>

\* the default branch answering like a known command
UnknownResponseOk == <<"O", "K", NL>>

UnknownResponse == <<NL>>

\* 'Z' without the AZencoder.clearCount() call
ZCountsAltOnly(az, alt) == [az |-> az, alt |-> Int64(0)]

\* case 'Z': ALTencoder.clearCount() and AZencoder.clearCount()
ZCounts(az, alt) == [az |-> Int64(0), alt |-> Int64(0)]

\* case 'S' accepting a scan that converted one integer only
SParseOkOne(details) == Sscanf(details).n >= 1

\* the test that guards the body of case 'S'
SParseOk(details) == Sscanf(details).n = 2

\* 'S' clearing the counters as 'Z' does
SCountsCleared(az, alt) == ZCounts(az, alt)

\* case 'S', the body for a pair: the encoders are not touched
SCounts(az, alt) == [az |-> az, alt |-> alt]

\* itoa + conf.setValue for both resolutions
SetResolution(cf, azRes, altRes) ==
  SetValue(SetValue(cf, "azsteps", FmtInt(azRes)), "alsteps", FmtInt(altRes))

\* processBBoxCommand(command, details, response): response is the caller's
\* buffer as it is on entry; the result holds the buffer on return, the two
\* counters and the configuration
processBBoxCommand(command, details, response, az, alt, cf) ==
  CASE command = "Q" ->
         [az |-> az, alt |-> alt, conf |-> cf, response |-> QResponse(az, alt),
          unknown |-> FALSE]
    [] command = "G" ->
         [az |-> az, alt |-> alt, conf |-> cf, response |-> GResponse(cf),
          unknown |-> FALSE]
    [] command = "H" ->
         [az |-> az, alt |-> alt, conf |-> cf, response |-> HResponse(cf),
          unknown |-> FALSE]
    [] command = "Z" ->
         [az |-> ZCounts(az, alt).az, alt |-> ZCounts(az, alt).alt, conf |-> cf,
          response |-> OkResponse, unknown |-> FALSE]
    [] command = "S" ->
         IF SParseOk(details)
         THEN [az |-> SCounts(az, alt).az, alt |-> SCounts(az, alt).alt,
               conf |-> SetResolution(cf, Sscanf(details).az, Sscanf(details).alt),
               response |-> OkResponse, unknown |-> FALSE]
         ELSE [az |-> az, alt |-> alt, conf |-> cf, response |-> response,
               unknown |-> FALSE]
    [] OTHER ->
         [az |-> az, alt |-> alt, conf |-> cf, response |-> UnknownResponse,
          unknown |-> TRUE]

\* printConfig(): every entry as "<name> : <value>" and a line end
RECURSIVE printConfigFrom(_, _)
printConfigFrom(cf, i) ==
  IF i > Len(ConfKeys) THEN <<>>
  ELSE KeyText[ConfKeys[i]] \o <<" ", ":", " ">> \o Println(cf[ConfKeys[i]])
         \o printConfigFrom(cf, i + 1)

printConfig(cf) == printConfigFrom(cf, 1)

\* ------------------------------------------------------------ framing

\* the fill loop without its count < MAX_REQUEST_LENGTH test
BTDetailCountNoCap(rest) == Len(rest)

\* attendBTRequests: the while loop that fills requestDetails
BTDetailCount(rest) == Min(Len(rest), MAX_REQUEST_LENGTH)

\* attendTcpRequests: the if statement that fills requestDetails
TcpDetailCount(rest) == IF rest # <<>> /\ 0 < MAX_REQUEST_LENGTH THEN 1 ELSE 0

\* a handler without the loop that reads the remaining input
FlushNone(input, count) == Drop(input, 1 + count)

\* what is left of the buffered input after the command byte, count detail
\* bytes and the while loop that reads the remaining input
Flush(input, count) == <<>>

\* ------------------------------------------------------------ state

VARIABLES
  azCount,    \* AZencoder's count
  altCount,   \* ALTencoder's count
  conf,       \* the configuration values, as text
  btIn,       \* SerialBT's receive buffer
  serverClients,    \* serverClients[]: handle id (0: none), connected, receive buffer
  pending,    \* connections waiting on TCPserver, oldest first
  nextId,     \* the handle id of the next connection attempt
  stopped,    \* handles the program has closed
  resetPin,   \* the level of PIN_RESET
  pc,         \* where loop() is: "reset", "held", "bt", "accept", "svc";
              \* "boot": setup() has returned and loop() has not run yet
  svcIdx,     \* passes of the service loop of attendTcpRequests done in this
              \* poll, which is its i
  acc,        \* what the accept phase of this iteration did
  last,       \* the latest request dispatched, what was written for it (wire:
              \* the text; out: each write with its destination), what
              \* the accept phase of its iteration had done, and (iter) the
              \* requests dispatched so far in the current iteration of loop()
  served,     \* requests dispatched so far
  arrivals,   \* request chunks that have arrived so far
  ticks,      \* encoder ticks so far
  sinceZ      \* "none": no 'Z' dispatched yet; "clean": no tick since the
              \* latest 'Z'; "ticked": a counter moved since the latest 'Z'

vars == <<azCount, altCount, conf, btIn, serverClients, pending, nextId, stopped,
          resetPin, pc, svcIdx, acc, last, served, arrivals, ticks, sinceZ>>

Slots == 0..(MAX_SRV_CLIENTS - 1)

NoClient == [id |-> 0, conn |-> FALSE, inbuf |-> <<>>]

NoDispatch == [src |-> "none", slot |-> 0 - 1, input |-> <<>>, command |-> "",
               details |-> <<>>, count |-> 0, respIn |-> <<>>, response |-> <<>>,
               wire |-> <<>>, out |-> <<>>, unknown |-> FALSE, acc |-> "none",
               iter |-> <<>>]

\* WiFiClient::connected() and WiFiClient::operator bool()
Connected(c) == c.conn
ClientBool(c) == c.id # 0 /\ c.conn

\* an accept loop that takes the first spot whatever it holds
FreeSpotAny(c) == TRUE

\* an accept loop that takes only spots that never held a client
FreeSpotUnused(c) == c.id = 0

\* the test of the accept loop: a free or disconnected spot
FreeSpot(c) == ~ClientBool(c) \/ ~Connected(c)

\* a service loop that does not ask whether the client is connected
ServiceableAny(c) == c.id # 0

\* the test of the service loop
Serviceable(c) == ClientBool(c) /\ Connected(c)

\* setupEncoders(): clearCount, then setCount(conf.getInt("..start"))
StartAz(cf) == Int64(GetInt(cf, "azstart"))
StartAlt(cf) == Int64(GetInt(cf, "alstart"))

\* what an uninitialised response[30] may hold on entry: what the previous
\* call left on the stack, or other bytes
StaleResponses == {last.response, <<"#">>}

Init ==
  /\ conf = DefaultConf
  /\ azCount = StartAz(DefaultConf)
  /\ altCount = StartAlt(DefaultConf)
  /\ btIn = <<>>
  /\ serverClients = [i \in Slots |-> NoClient]
  /\ pending = <<>>
  /\ nextId = 1
  /\ stopped = {}
  /\ resetPin = FALSE
  /\ pc = "boot"
  /\ svcIdx = 0
  /\ acc = "none"
  /\ last = NoDispatch
  /\ served = 0
  /\ arrivals = 0
  /\ ticks = 0
  /\ sinceZ = "none"

\* ------------------------------------------------------------ environment

\* the hardware pulse counter of one encoder moves by one tick
Tick(axis, d) ==
  /\ ticks < MaxTicks
  /\ ticks' = ticks + 1
  /\ IF axis = "az"
     THEN /\ azCount' = Add64(azCount, d)
          /\ altCount' = altCount
     ELSE /\ altCount' = Add64(altCount, d)
          /\ azCount' = azCount
  /\ sinceZ' = IF sinceZ = "none" THEN "none" ELSE "ticked"
  /\ UNCHANGED <<conf, btIn, serverClients, pending, nextId, stopped, resetPin, pc,
                 svcIdx, acc, last, served, arrivals>>

\* the reset button is pressed or released
TogglePin ==
  /\ resetPin' = ~resetPin
  /\ UNCHANGED <<azCount, altCount, conf, btIn, serverClients, pending, nextId, stopped,
                 pc, svcIdx, acc, last, served, arrivals, ticks, sinceZ>>

\* bytes arrive on the Bluetooth serial channel
BTArrive(chunk) ==
  /\ arrivals < MaxArrivals
  /\ btIn = <<>>
  /\ btIn' = chunk
  /\ arrivals' = arrivals + 1
  /\ UNCHANGED <<azCount, altCount, conf, serverClients, pending, nextId, stopped,
                 resetPin, pc, svcIdx, acc, last, served, sinceZ, ticks>>

\* bytes arrive on the connection held in slot i
TcpArrive(i, chunk) ==
  /\ arrivals < MaxArrivals
  /\ serverClients[i].id # 0
  /\ serverClients[i].conn
  /\ serverClients[i].inbuf = <<>>
  /\ serverClients' = [serverClients EXCEPT ![i].inbuf = chunk]
  /\ arrivals' = arrivals + 1
  /\ UNCHANGED <<azCount, altCount, conf, btIn, pending, nextId, stopped,
                 resetPin, pc, svcIdx, acc, last, served, sinceZ, ticks>>

\* a client connects to port 4030; it may have sent a request already
Connect(chunk) ==
  /\ nextId <= MaxConns
  /\ Len(pending) < MaxPending
  /\ chunk # <<>> => arrivals < MaxArrivals
  /\ pending' = Append(pending, [id |-> nextId, inbuf |-> chunk])
  /\ nextId' = nextId + 1
  /\ arrivals' = IF chunk # <<>> THEN arrivals + 1 ELSE arrivals
  /\ UNCHANGED <<azCount, altCount, conf, btIn, serverClients, stopped, resetPin, pc,
                 svcIdx, acc, last, served, sinceZ, ticks>>

\* the peer of the connection held in slot i goes away; bytes it had sent
\* and the program has not read stay in the handle (keep) or are lost with
\* the connection
Disconnect(i, keep) ==
  /\ serverClients[i].id # 0
  /\ serverClients[i].conn
  /\ serverClients' = [serverClients EXCEPT ![i] =
                         [@ EXCEPT !.conn = FALSE,
                                   !.inbuf = IF keep THEN @ ELSE <<>>]]
  /\ UNCHANGED <<azCount, altCount, conf, btIn, pending, nextId, stopped,
                 resetPin, pc, svcIdx, acc, last, served, arrivals, ticks, sinceZ>>

\* ------------------------------------------------------------ loop()

\* ESP.restart() followed by setup()
restart ==
  /\ conf' = DefaultConf
  /\ azCount' = StartAz(DefaultConf)
  /\ altCount' = StartAlt(DefaultConf)
  /\ btIn' = <<>>
  /\ serverClients' = [i \in Slots |-> NoClient]
  /\ pending' = <<>>
  /\ stopped' = {}
  /\ pc' = "boot"
  /\ svcIdx' = 0
  /\ acc' = "none"
  /\ last' = NoDispatch
  /\ sinceZ' = "none"
  /\ UNCHANGED <<nextId, resetPin, served, arrivals, ticks>>

\* a loop() that goes from the reset block straight to the TCP handler
FirstHandlerTcp == "accept"

\* the handler loop() calls after the reset block: attendBTRequests()
\* (server.handleClient(), the configuration web page, is not followed)
FirstHandler == "bt"

\* a loop() that takes the second reading as HIGH whatever the pin shows
SecondReadHigh == TRUE

\* the second digitalRead(PIN_RESET) == HIGH
SecondRead == resetPin

\* the Bluetooth serial channel as a destination of output
SerialBT == [src |-> "bt", slot |-> 0 - 1]

\* the first digitalRead(PIN_RESET) and the body it guards, up to the delays
loopReset ==
  /\ pc \in {"reset", "boot"}
  /\ IF resetPin
     THEN /\ altCount' = Int64(0)
          /\ azCount' = Int64(0)
          /\ pc' = "held"
     ELSE /\ pc' = FirstHandler
          /\ UNCHANGED <<azCount, altCount>>
  /\ acc' = "none"
  /\ last' = [last EXCEPT !.iter = <<>>]
  /\ UNCHANGED <<conf, btIn, serverClients, pending, nextId, stopped, resetPin, svcIdx,
                 served, arrivals, ticks, sinceZ>>

\* the second digitalRead(PIN_RESET), after the delays
loopHeld ==
  /\ pc = "held"
  /\ IF SecondRead
     THEN restart
     ELSE /\ pc' = FirstHandler
          /\ UNCHANGED <<azCount, altCount, conf, btIn, serverClients, pending, nextId,
                         stopped, resetPin, svcIdx, acc, last, served,
                         arrivals, sinceZ, ticks>>

\* handlers that write every response to the client of slot 0
ReplyToFirstSlot(src, slot) == [src |-> "tcp", slot |-> 0]

\* the object the handler of a request from src (and slot) calls println
\* on: SerialBT, or serverClients[i] with the i of the service loop
ReplyTo(src, slot) == [src |-> src, slot |-> slot]

\* the record of one request: framed from input with count detail bytes,
\* dispatched with the response buffer holding stale on entry
Dispatched(src, slot, input, count, stale) ==
  LET command == Head(input)
      details == SubSeq(Tail(input), 1, count)
      r == processBBoxCommand(command, details, stale, azCount, altCount, conf)
  IN [src |-> src, slot |-> slot, input |-> input, command |-> command,
      details |-> details, count |-> count, respIn |-> stale,
      response |-> r.response,
      wire |-> (IF src = "bt" /\ command = "?" THEN printConfig(r.conf) ELSE <<>>)
                 \o Println(r.response),
      out |-> (IF src = "bt" /\ command = "?"
               THEN <<[to |-> SerialBT, text |-> printConfig(r.conf)]>> ELSE <<>>)
                \o <<[to |-> ReplyTo(src, slot), text |-> Println(r.response)]>>,
      unknown |-> r.unknown, acc |-> acc,
      iter |-> Append(last.iter, [src |-> src, slot |-> slot, command |-> command])]

\* the effect of dispatching the request recorded in d on the device
Apply(d) ==
  LET r == processBBoxCommand(d.command, d.details, d.respIn, azCount, altCount, conf)
  IN /\ azCount' = r.az
     /\ altCount' = r.alt
     /\ conf' = r.conf
     /\ last' = d
     /\ served' = served + 1
     /\ sinceZ' = IF d.command = "Z" THEN "clean" ELSE sinceZ

\* the dispatcher wrote to the response buffer of the request recorded in d
Written(d) == d.command # "S" \/ SParseOk(d.details)

\* the text written for d and its NUL do not fit in response[]
Overflows(d) == Written(d) /\ Len(d.response) + 1 > RESPONSE_SIZE

\* what a call that writes past the end of response[] may do: return with
\* the text in place, or bring the device down (panic and reboot)
Outcomes(d) == IF Overflows(d) THEN {"returns", "panics"} ELSE {"returns"}

\* attendBTRequests()
attendBTRequests ==
  /\ pc = "bt"
  /\ IF btIn = <<>>
     THEN /\ pc' = "accept"
          /\ UNCHANGED <<azCount, altCount, conf, btIn, last, served, sinceZ,
                         serverClients, pending, nextId, stopped, resetPin, svcIdx,
                         acc, arrivals, ticks>>
     ELSE \E stale \in StaleResponses :
            LET d == Dispatched("bt", 0 - 1, btIn, BTDetailCount(Tail(btIn)), stale)
            IN \E outcome \in Outcomes(d) :
                 IF outcome = "panics"
                 THEN restart
                 ELSE /\ Apply(d)
                      /\ btIn' = Flush(btIn, d.count)
                      /\ pc' = "accept"
                      /\ UNCHANGED <<serverClients, pending, nextId, stopped,
                                     resetPin, svcIdx, acc, arrivals, ticks>>

\* an accept loop that leaves the handle it replaces open
CloseStaleNever(c, closed) == closed

\* the handles closed once the spot that held c has been given to a new
\* client: serverClients[i].stop(), or the release of the handle that
\* serverClients[i] = ... replaces
CloseStale(c, closed) == IF c.id # 0 THEN closed \cup {c.id} ELSE closed

\* an accept loop that, finding no free spot, ends on the last spot
AcceptIndexLast ==
  IF \E i \in Slots : FreeSpot(serverClients[i])
  THEN CHOOSE i \in Slots :
         /\ FreeSpot(serverClients[i])
         /\ \A j \in Slots : j < i => ~FreeSpot(serverClients[j])
  ELSE MAX_SRV_CLIENTS - 1

\* i when the accept loop ends: the lowest free or disconnected spot, or
\* MAX_SRV_CLIENTS when there is none
AcceptIndex ==
  IF \E i \in Slots : FreeSpot(serverClients[i])
  THEN CHOOSE i \in Slots :
         /\ FreeSpot(serverClients[i])
         /\ \A j \in Slots : j < i => ~FreeSpot(serverClients[j])
  ELSE MAX_SRV_CLIENTS

\* an accept loop without its break: it goes on through the table, and every
\* free or disconnected spot takes a connection while one is pending
RECURSIVE FillFrom(_, _, _, _)
FillFrom(i, table, p, closed) ==
  IF i = MAX_SRV_CLIENTS \/ p = <<>>
  THEN [clients |-> table, pending |-> p, stopped |-> closed]
  ELSE IF FreeSpot(table[i])
       THEN FillFrom(i + 1,
                     [table EXCEPT ![i] = [id |-> Head(p).id, conn |-> TRUE,
                                           inbuf |-> Head(p).inbuf]],
                     Tail(p), CloseStale(table[i], closed))
       ELSE FillFrom(i + 1, table, p, closed)

AcceptNoBreak(table, p, closed) == FillFrom(0, table, p, closed)

\* the body of the accept loop at the spot it stops on: the stale handle is
\* closed, serverClients[i] = TCPserver.available() takes the oldest
\* pending connection, break
AcceptClaim(table, p, closed) ==
  [clients |-> [table EXCEPT ![AcceptIndex] =
                  [id |-> Head(p).id, conn |-> TRUE, inbuf |-> Head(p).inbuf]],
   pending |-> Tail(p),
   stopped |-> CloseStale(table[AcceptIndex], closed)]

\* attendTcpRequests(): the accept phase
attendTcpAccept ==
  /\ pc = "accept"
  /\ pc' = "svc"
  /\ svcIdx' = 0
  /\ IF pending = <<>>
     THEN /\ acc' = "none"
          /\ UNCHANGED <<serverClients, pending, stopped>>
     ELSE IF AcceptIndex # MAX_SRV_CLIENTS
          THEN LET a == AcceptClaim(serverClients, pending, stopped)
               IN /\ serverClients' = a.clients
                  /\ stopped' = a.stopped
                  /\ pending' = a.pending
                  /\ acc' = "accepted"
          ELSE /\ stopped' = stopped \cup {Head(pending).id}
               /\ pending' = Tail(pending)
               /\ acc' = "rejected"
               /\ UNCHANGED serverClients
  /\ UNCHANGED <<azCount, altCount, conf, btIn, nextId, resetPin, last,
                 served, arrivals, ticks, sinceZ>>

\* a service loop that runs from the last slot down to the first
ServiceSlotDown(k) == MAX_SRV_CLIENTS - 1 - k

\* the slot visited by pass k of the service loop: for (i = 0; ...; i++)
ServiceSlot(k) == k

\* attendTcpRequests(): one pass of the service loop, svcIdx passes done
attendTcpService ==
  /\ pc = "svc"
  /\ LET i == ServiceSlot(svcIdx)
     IN IF Serviceable(serverClients[i]) /\ serverClients[i].inbuf # <<>>
        THEN \E stale \in StaleResponses :
               LET d == Dispatched("tcp", i, serverClients[i].inbuf,
                                   TcpDetailCount(Tail(serverClients[i].inbuf)), stale)
               IN \E outcome \in Outcomes(d) :
                    IF outcome = "panics"
                    THEN restart
                    ELSE /\ Apply(d)
                         /\ serverClients' = [serverClients EXCEPT
                                                ![i].inbuf = Flush(@, d.count)]
                         /\ svcIdx' = IF svcIdx + 1 < MAX_SRV_CLIENTS
                                       THEN svcIdx + 1 ELSE 0
                         /\ pc' = IF svcIdx + 1 < MAX_SRV_CLIENTS THEN "svc" ELSE "reset"
                         /\ UNCHANGED <<btIn, pending, nextId, stopped, resetPin, acc,
                                        arrivals, ticks>>
        ELSE /\ svcIdx' = IF svcIdx + 1 < MAX_SRV_CLIENTS THEN svcIdx + 1 ELSE 0
             /\ pc' = IF svcIdx + 1 < MAX_SRV_CLIENTS THEN "svc" ELSE "reset"
             /\ UNCHANGED <<azCount, altCount, conf, serverClients, last, served,
                            sinceZ, btIn, pending, nextId, stopped, resetPin, acc,
                            arrivals, ticks>>

\* ------------------------------------------------------------ inputs

\* the oversized request: 'S', a valid pair, then filler up to MaxExtra bytes
\* beyond the cap
LongArgs == <<"7", ",", "9">> \o [i \in 1..(MAX_REQUEST_LENGTH + MaxExtra - 3) |-> "x"]

BigRes == <<"1", "0", "0", "0", "0", "0", "0", "0", "0">>

\* two requests sent back to back on one session
BackToBack == <<"S", "7", ",", "9", "Q">>

\* requests of the running system
SysChunks == {<<"Q">>, <<"Z">>}

\* requests that exercise the protocol: every command, well and badly formed
\* arguments of 'S', large resolutions, an oversized request
ProtoChunks ==
  {<<"Q">>, <<"G">>, <<"H">>, <<"Z">>, <<"X">>, <<"?">>, <<"S">>,
   <<"S", "7", ",", "9">>, <<"S", " ", "7", ",", "9">>, <<"S", "7", ",", "9", "x">>,
   <<"S", "7">>, <<"S", "7", ",">>, <<"S", "x", "7", ",", "9">>,
   <<"S">> \o BigRes \o <<",">> \o BigRes,
   <<"S">> \o LongArgs}

\* ------------------------------------------------------------ specifications

\* the session table: serverClients connect, send queries and go away, while the
\* reset button is left alone
Next ==
  \/ \E c \in {<<>>, <<"Q">>} : Connect(c)
  \/ \E i \in Slots, keep \in BOOLEAN : Disconnect(i, keep)
  \/ \E i \in Slots : TcpArrive(i, <<"Q">>)
  \/ TcpArrive(0, BackToBack)
  \/ loopReset
  \/ attendBTRequests
  \/ attendTcpAccept
  \/ attendTcpService

Spec == Init /\ [][Next]_vars

\* two clients are connected, in slots 0 and 1
TwoSessions ==
  [i \in Slots |-> IF i < 2 THEN [id |-> i + 1, conn |-> TRUE, inbuf |-> <<>>]
                   ELSE NoClient]

InitLoop ==
  /\ conf = DefaultConf
  /\ azCount = StartAz(DefaultConf)
  /\ altCount = StartAlt(DefaultConf)
  /\ btIn = <<>>
  /\ serverClients = TwoSessions
  /\ pending = <<>>
  /\ nextId = 3
  /\ stopped = {}
  /\ resetPin = FALSE
  /\ pc = "reset"
  /\ svcIdx = 0
  /\ acc = "none"
  /\ last = NoDispatch
  /\ served = 0
  /\ arrivals = 0
  /\ ticks = 0
  /\ sinceZ = "none"

\* the azimuth encoder turns forward, the altitude encoder backward
LoopTicks == {<<"az", 1>>, <<"alt", 0 - 1>>}

\* the control loop with the encoders turning, the reset button in use and
\* requests arriving on the serial channel and on two TCP sessions
NextLoop ==
  \/ \E t \in LoopTicks : Tick(t[1], t[2])
  \/ TogglePin
  \/ \E c \in SysChunks : BTArrive(c)
  \/ \E i \in Slots, c \in SysChunks : TcpArrive(i, c)
  \/ loopReset
  \/ loopHeld
  \/ attendBTRequests
  \/ attendTcpAccept
  \/ attendTcpService

SpecLoop == InitLoop /\ [][NextLoop]_vars

\* one TCP session is established and the counters have moved; protocol
\* requests arrive on both transports
InitProto ==
  /\ conf = DefaultConf
  /\ azCount \in {Int64(0), Int64(1)}
  /\ altCount \in {Int64(0), Int64(ALTITUDE_START)}
  /\ btIn = <<>>
  /\ serverClients = [i \in Slots |-> IF i = 0
                                THEN [id |-> 1, conn |-> TRUE, inbuf |-> <<>>]
                                ELSE NoClient]
  /\ pending = <<>>
  /\ nextId = 2
  /\ stopped = {}
  /\ resetPin = FALSE
  /\ pc = "reset"
  /\ svcIdx = 0
  /\ acc = "none"
  /\ last = NoDispatch
  /\ served = 0
  /\ arrivals = 0
  /\ ticks = 0
  /\ sinceZ = "none"

NextProto ==
  \/ \E c \in ProtoChunks : BTArrive(c)
  \/ \E c \in ProtoChunks : TcpArrive(0, c)
  \/ loopReset
  \/ attendBTRequests
  \/ attendTcpAccept
  \/ attendTcpService

SpecProto == InitProto /\ [][NextProto]_vars

\* the whole of loop() from power-on: the reset button is in use, requests
\* arrive on the serial channel, clients connect, some with a request
\* already sent, and send queries
NextOrder ==
  \/ TogglePin
  \/ \E c \in SysChunks \cup {<<"?">>} : BTArrive(c)
  \/ \E c \in {<<>>, <<"Q">>} : Connect(c)
  \/ \E i \in Slots : TcpArrive(i, <<"Q">>)
  \/ loopReset
  \/ loopHeld
  \/ attendBTRequests
  \/ attendTcpAccept
  \/ attendTcpService

SpecOrder == Init /\ [][NextOrder]_vars

\* requests of every kind: each command, an unknown one, 'S' with a pair
\* and with one integer only
FrameChunks == {<<"Q">>, <<"G">>, <<"H">>, <<"Z">>, <<"X">>,
                <<"S", "7", ",", "9">>, <<"S", "7">>}

\* three clients are connected
InitFrame ==
  /\ conf = DefaultConf
  /\ azCount = StartAz(DefaultConf)
  /\ altCount = StartAlt(DefaultConf)
  /\ btIn = <<>>
  /\ serverClients = [i \in Slots |-> [id |-> i + 1, conn |-> TRUE, inbuf |-> <<>>]]
  /\ pending = <<>>
  /\ nextId = MAX_SRV_CLIENTS + 1
  /\ stopped = {}
  /\ resetPin = FALSE
  /\ pc = "reset"
  /\ svcIdx = 0
  /\ acc = "none"
  /\ last = NoDispatch
  /\ served = 0
  /\ arrivals = 0
  /\ ticks = 0
  /\ sinceZ = "none"

\* everything that can happen to the device: an encoder turns, the reset
\* button is used (it moves where loop() reads it: between iterations and
\* during the delays), requests of every kind arrive, clients come and go
NextFrame ==
  \/ ticks < MaxFrame /\ Tick("az", 1)
  \/ pc \in {"boot", "reset", "held"} /\ TogglePin
  \/ arrivals < MaxFrame /\ \E c \in FrameChunks : BTArrive(c)
  \/ Connect(<<>>)
  \/ Disconnect(0, FALSE)
  \/ loopReset
  \/ loopHeld
  \/ attendBTRequests
  \/ attendTcpAccept
  \/ attendTcpService

SpecFrame == InitFrame /\ [][NextFrame]_vars

\* counts after a long run of the encoders: zero, just below a power of ten
\* and far below zero
FitCounts == {Int64(0), [hi |-> MaxHigh - 1, lo |-> LIMB - 1],
              [hi |-> 0 - MaxHigh, lo |-> 0]}

\* requests whose answers are the longest of each kind
FitChunks == {<<"Q">>, <<"G">>, <<"H">>, <<"Z">>, <<"X">>,
              <<"S">> \o BigRes \o <<",">> \o BigRes}

InitFit ==
  /\ conf = DefaultConf
  /\ azCount \in FitCounts
  /\ altCount \in FitCounts
  /\ btIn = <<>>
  /\ serverClients = [i \in Slots |-> IF i = 0
                                THEN [id |-> 1, conn |-> TRUE, inbuf |-> <<>>]
                                ELSE NoClient]
  /\ pending = <<>>
  /\ nextId = 2
  /\ stopped = {}
  /\ resetPin = FALSE
  /\ pc = "reset"
  /\ svcIdx = 0
  /\ acc = "none"
  /\ last = NoDispatch
  /\ served = 0
  /\ arrivals = 0
  /\ ticks = 0
  /\ sinceZ = "none"

\* the device with counts of many digits: the encoders turn and requests
\* arrive on both transports
NextFit ==
  \/ \E d \in {0 - 1, 1} : Tick("az", d)
  \/ \E c \in FitChunks : BTArrive(c)
  \/ TcpArrive(0, <<"Q">>)
  \/ loopReset
  \/ attendBTRequests
  \/ attendTcpAccept
  \/ attendTcpService

SpecFit == InitFit /\ [][NextFit]_vars

\* ------------------------------------------------------------ properties

KnownCommands == {"Q", "G", "H", "Z", "S"}

\* a step that dispatches a request
DispatchStep == served' = served + 1

\* the device state a command may touch is left as it was
DeviceUnchanged == azCount' = azCount /\ altCount' = altCount /\ conf' = conf

\* ds is a positive decimal integer without sign or leading zero
IsPosText(ds) ==
  /\ ds # <<>>
  /\ \A i \in 1..Len(ds) : ds[i] \in DigitSet
  /\ ds[1] # "0"

\* ds is a decimal integer with an optional sign
IsIntText(ds) ==
  LET u == IF ds # <<>> /\ ds[1] \in {"-", "+"} THEN Tail(ds) ELSE ds
  IN u # <<>> /\ \A i \in 1..Len(u) : u[i] \in DigitSet

IsWsText(ws) == \A i \in 1..Len(ws) : ws[i] \in Whitespace

\* args is "<az>,<alt>" for two positive integers
IsPosPair(args) ==
  \E k \in 1..Len(args) :
    /\ args[k] = ","
    /\ IsPosText(SubSeq(args, 1, k - 1))
    /\ IsPosText(SubSeq(args, k + 1, Len(args)))

\* the answer "<az>\t<alt>\t\n" for args "<az>,<alt>"
PosPairAnswer(args) ==
  LET k == CHOOSE k \in 1..Len(args) : args[k] = ","
  IN SubSeq(args, 1, k - 1) \o <<TAB>> \o SubSeq(args, k + 1, Len(args)) \o <<TAB, NL>>

\* d is exactly two integers separated by a comma
IsExactPair(d) ==
  \E k \in 1..Len(d) :
    /\ d[k] = ","
    /\ IsIntText(SubSeq(d, 1, k - 1))
    /\ IsIntText(SubSeq(d, k + 1, Len(d)))

\* d begins with white space (or none), an integer, a comma, white space (or
\* none) and an integer; anything may follow
HasPairPrefix(d) ==
  \E k \in 1..Len(d) :
    /\ d[k] = ","
    /\ \E a \in 0..(k - 1) :
         /\ IsWsText(SubSeq(d, 1, a))
         /\ IsIntText(SubSeq(d, a + 1, k - 1))
    /\ \E c \in k..Len(d) :
         /\ IsWsText(SubSeq(d, k + 1, c))
         /\ \E e \in (c + 1)..Len(d) : IsIntText(SubSeq(d, c + 1, e))

EndsWith(text, tail) ==
  /\ Len(text) >= Len(tail)
  /\ SubSeq(text, Len(text) - Len(tail) + 1, Len(text)) = tail

ZeroCounts == <<"0", TAB, "0", TAB, NL>>

\* C1: after an 'S' request with argument text "<az>,<alt>" (az, alt positive
\* integers) is processed on either transport, the 'S' is answered "OK\n" and
\* the next request, when it is 'H', is answered "<az>\t<alt>\t\n".
C1_RoundTrip ==
  [][(/\ DispatchStep
      /\ last.command = "S"
      /\ IsPosPair(Tail(last.input))
      /\ last'.command = "H")
     => (/\ last.response = OkResponse
         /\ last'.response = PosPairAnswer(Tail(last.input)))]_vars

\* C2 as stated: a 'Q' dispatched after a 'Z' is answered "0\t0\t\n" whatever
\* happened between the two requests, hardware ticks included.
C2_ZThenQ ==
  (sinceZ # "none" /\ last.command = "Q") => last.response = ZeroCounts

\* C2 as amended: a 'Q' dispatched after a 'Z' is answered "0\t0\t\n" whatever
\* the counters held before the 'Z', when no counter has ticked (and the
\* device has not restarted) since that 'Z'; other requests, reset presses and
\* loop iterations in between do not matter.
C2_ZThenQNoTick ==
  (sinceZ = "clean" /\ last.command = "Q") => last.response = ZeroCounts

\* a 'Q' answered after a 'Z' on a device whose counters had moved
C2_Witness ==
  /\ sinceZ = "clean"
  /\ last.command = "Q"
  /\ last.src = "tcp"
  /\ last.response = ZeroCounts

\* what ignoring an 'S' request means: nothing stored, counters as they were,
\* the response buffer as it was on entry
SIgnored == DeviceUnchanged /\ last'.response = last'.respIn

\* C3 as stated: an 'S' request whose details are anything but exactly two
\* integers separated by a comma (extra characters before or after included)
\* is ignored.
C3_NotExactPairIgnored ==
  [][(DispatchStep /\ last'.command = "S" /\ ~IsExactPair(last'.details))
     => SIgnored]_vars

\* C3 as amended: an 'S' request is ignored (resolutions and counters
\* unchanged, response buffer untouched) when its details do not begin with
\* optional white space, an integer, a comma, optional white space and an
\* integer; details that do begin so are answered "OK\n", whatever follows the
\* second integer.
C3_NoPairPrefixIgnored ==
  [][(DispatchStep /\ last'.command = "S")
     => IF HasPairPrefix(last'.details)
        THEN last'.response = OkResponse
        ELSE SIgnored]_vars

\* an 'S' with a missing second integer left the stale buffer as it was
C3_Witness ==
  /\ last.src = "bt"
  /\ last.command = "S"
  /\ last.details = <<"7", ",">>
  /\ last.respIn = <<"#">>
  /\ last.response = <<"#">>
  /\ conf = DefaultConf

\* C4 as stated: a command byte other than Q, G, H, Z, S changes nothing and
\* the empty response line is all that is written to the transport for it.
C4_UnknownOnlyNewline ==
  [][(DispatchStep /\ last'.command \notin KnownCommands)
     => (DeviceUnchanged /\ last'.wire = Println(<<NL>>))]_vars

\* C4 as amended: a command byte other than Q, G, H, Z, S changes nothing and
\* is answered with the empty response line alone, except '?' on the serial
\* channel, where the configuration listing is written before that line.
C4_UnknownNewlineOrListing ==
  [][(DispatchStep /\ last'.command \notin KnownCommands)
     => (/\ DeviceUnchanged
         /\ last'.response = <<NL>>
         /\ IF last'.src = "bt" /\ last'.command = "?"
            THEN last'.wire = printConfig(conf) \o Println(<<NL>>)
            ELSE last'.wire = Println(<<NL>>))]_vars

\* '?' on the serial channel was answered with more than the empty line
C4_Witness ==
  /\ last.src = "bt"
  /\ last.command = "?"
  /\ last.response = <<NL>>
  /\ Len(last.wire) > Len(Println(<<NL>>))

\* the receive buffer of the transport the latest request came from
SourceBuffer == IF last.src = "bt" THEN btIn ELSE serverClients[last.slot].inbuf

\* C5: the write index into requestDetails never exceeds MAX_REQUEST_LENGTH,
\* the details are a prefix of the argument bytes, and once the request is
\* serviced the transport's receive buffer is empty, so bytes beyond the cap
\* reach no later request.
C5_OversizedRequest ==
  [][DispatchStep
     => (/\ last'.count <= MAX_REQUEST_LENGTH
         /\ last'.details = SubSeq(Tail(last'.input), 1, last'.count)
         /\ SourceBuffer' = <<>>)]_vars

\* the serial channel serviced a request with more than MAX_REQUEST_LENGTH
\* argument bytes
C5_Witness ==
  /\ last.src = "bt"
  /\ Len(last.input) > MAX_REQUEST_LENGTH + 1
  /\ last.count = MAX_REQUEST_LENGTH
  /\ btIn = <<>>

AllConnected == \A i \in Slots : serverClients[i].id # 0 /\ serverClients[i].conn

\* the step of the accept phase
AcceptStep == pc = "accept" /\ pc' = "svc"

\* the step of the service loop for slot svcIdx
ServiceStep == pc = "svc" /\ (pc' = "reset" \/ svcIdx' = svcIdx + 1)

\* C6: with all three slots connected and a connection pending, the accept
\* phase closes the new connection and leaves the slot table as it is, and
\* every connected session with buffered input is still serviced.
C6_FullTableRejects ==
  [][/\ (AcceptStep /\ pending # <<>> /\ AllConnected)
          => (/\ serverClients' = serverClients
              /\ pending' = Tail(pending)
              /\ Head(pending).id \in stopped'
              /\ \A i \in Slots : serverClients'[i].id \notin stopped'
              /\ acc' = "rejected")
     /\ (ServiceStep /\ serverClients[svcIdx].id # 0 /\ serverClients[svcIdx].conn
           /\ serverClients[svcIdx].inbuf # <<>>)
          => (/\ DispatchStep
              /\ last'.src = "tcp"
              /\ last'.slot = svcIdx
              /\ last'.input = serverClients[svcIdx].inbuf)]_vars

\* a session was serviced in the very poll that rejected a fourth client
C6_Witness ==
  /\ AllConnected
  /\ last.src = "tcp"
  /\ last.acc = "rejected"
  /\ stopped # {}

\* C7: when some slot holds a disconnected session, the accept phase never
\* rejects a pending connection: it is placed in a free slot no higher than the
\* disconnected one, and the other slots are left as they are.
C7_DisconnectedSlotReused ==
  [][(AcceptStep /\ pending # <<>>
        /\ \E i \in Slots : serverClients[i].id # 0 /\ ~serverClients[i].conn)
     => (/\ Head(pending).id \notin stopped'
         /\ \E j \in Slots :
              /\ serverClients'[j].id = Head(pending).id
              /\ serverClients'[j].conn
              /\ ~serverClients[j].conn
              /\ \A i \in Slots : (serverClients[i].id # 0 /\ ~serverClients[i].conn) => j <= i
              /\ \A i \in Slots \ {j} : serverClients'[i] = serverClients[i])]_vars

\* a fourth client sits in a slot given up by an earlier one, the others
\* being connected
C7_Witness ==
  /\ AllConnected
  /\ acc = "accepted"
  /\ stopped # {}
  /\ \E j \in Slots : serverClients[j].id > MAX_SRV_CLIENTS

\* C8: the details a TCP session hands to the dispatcher are the first
\* min(k, MAX_REQUEST_LENGTH) of the k bytes buffered after the command byte.
C8_TcpDetails ==
  last.src = "tcp" => last.details = Take(Tail(last.input), MAX_REQUEST_LENGTH)

\* C9: the serial channel and a TCP session frame the same buffered bytes the
\* same way: whichever transport a request came from, the other one would
\* have handed the same details to the dispatcher and written the same text.
C9_SameFraming ==
  last.src # "none"
    => LET args == Tail(last.input)
           bt == Dispatched("bt", 0 - 1, last.input, BTDetailCount(args), last.respIn)
           tcp == Dispatched("tcp", 0 - 1, last.input, TcpDetailCount(args), last.respIn)
       IN /\ bt.command = tcp.command
          /\ bt.details = tcp.details
          /\ processBBoxCommand(bt.command, bt.details, last.respIn,
                                azCount, altCount, conf)
               = processBBoxCommand(tcp.command, tcp.details, last.respIn,
                                    azCount, altCount, conf)
          /\ bt.wire = tcp.wire

\* C10: the response ends as the wire protocol states: 'G' with a newline,
\* 'Q' and 'H' with tab and newline, 'Z' and a successful 'S' are "OK\n", an
\* unknown command is "\n".
C10_Terminators ==
  /\ last.command = "G" => EndsWith(last.response, <<NL>>)
  /\ last.command \in {"Q", "H"} => EndsWith(last.response, <<TAB, NL>>)
  /\ last.command = "Z" => last.response = OkResponse
  /\ (last.command = "S" /\ HasPairPrefix(last.details)) => last.response = OkResponse
  /\ (last.src # "none" /\ last.command \notin KnownCommands) => last.response = <<NL>>

\* C11: every response the dispatcher composes fits, with its terminating
\* NUL, in the 30 bytes of the response buffer: no command writes past
\* index 29.
C11_ResponseFits ==
  last.src # "none" /\ Written(last) => Len(last.response) + 1 <= RESPONSE_SIZE

\* t is a decimal integer as a reader takes it: '-' in front of a negative
\* one, no other sign, no zero in front
IsCountText(t) ==
  LET u == IF t # <<>> /\ t[1] = "-" THEN Tail(t) ELSE t
  IN /\ u # <<>>
     /\ \A i \in 1..Len(u) : u[i] \in DigitSet
     /\ Len(u) > 1 => u[1] # "0"
     /\ t[1] = "-" => u # <<"0">>

\* the count a reader takes from the decimal integer t
CountOfText(t) ==
  LET neg == t[1] = "-"
      u == IF neg THEN Tail(t) ELSE t
      cut == IF Len(u) > LimbDigits THEN Len(u) - LimbDigits ELSE 0
      hi == NatOf(SubSeq(u, 1, cut))
      lo == NatOf(SubSeq(u, cut + 1, Len(u)))
  IN IF neg THEN [hi |-> 0 - hi, lo |-> 0 - lo] ELSE [hi |-> hi, lo |-> lo]

\* r is "<az>\t<alt>\t\n" for the counts az and alt
IsCountsAnswer(r, az, alt) ==
  \E a \in 1..Len(r) :
    /\ r[a] = TAB
    /\ Len(r) >= a + 3
    /\ r[Len(r) - 1] = TAB
    /\ r[Len(r)] = NL
    /\ IsCountText(SubSeq(r, 1, a - 1))
    /\ IsCountText(SubSeq(r, a + 1, Len(r) - 2))
    /\ CountOfText(SubSeq(r, 1, a - 1)) = az
    /\ CountOfText(SubSeq(r, a + 1, Len(r) - 2)) = alt

\* C12: the answer to 'Q' is the raw signed count of the azimuth counter,
\* then of the altitude counter, each as a decimal integer followed by a
\* tab, then a newline; the counts are not reduced modulo the resolution,
\* also when they exceed it or are negative.
C12_QRawCounts ==
  [][DispatchStep /\ last'.command = "Q"
       => IsCountsAnswer(last'.response, azCount, altCount)]_vars

\* a 'Q' was answered with a negative azimuth count and an altitude count
\* beyond the altitude resolution
C12_Witness ==
  /\ last.command = "Q"
  /\ last.response[1] = "-"
  /\ azCount.hi < 0
  /\ altCount.hi > 0
  /\ GetInt(conf, "alsteps") = ALTITUDE_RES

\* a step in which the device restarts
RestartStep == pc' = "boot" /\ pc # "boot"

\* C13: when the reset input is read asserted at the start of an iteration,
\* both counters are set to zero before any request is serviced in that
\* iteration, whether or not the input is still asserted at the second
\* reading; the device restarts exactly when both readings of one iteration
\* find it asserted; no command or transport event causes a restart.
C13_ResetSequence ==
  [][/\ (pc \in {"reset", "boot"} /\ pc' \notin {"reset", "boot"})
          => /\ resetPin <=> pc' = "held"
             /\ resetPin => azCount' = Int64(0) /\ altCount' = Int64(0)
             /\ ~DispatchStep
     /\ DispatchStep => pc \in {"bt", "svc"}
     /\ (pc = "held" /\ pc' # "held")
          => IF resetPin THEN RestartStep
             ELSE pc' = "bt" /\ azCount' = azCount /\ altCount' = altCount
     /\ RestartStep => pc = "held" /\ resetPin]_vars

\* the device has restarted after it had served requests, and the button is
\* still down
C13_Witness == pc = "boot" /\ served > 0 /\ resetPin

\* no TCP slot occurs twice among the requests of one iteration of loop()
OncePerSlot(it) ==
  \A a, b \in 1..Len(it) :
    (a < b /\ it[a].src = "tcp" /\ it[b].src = "tcp") => it[a].slot # it[b].slot

\* C14: in one poll a TCP session has at most one request decoded and one
\* response written; of the bytes buffered, two requests back to back
\* included, the first is the command, the following ones are details (no
\* more than the cap) or discarded, and none is left to be dispatched in
\* this or a later poll.
C14_OneRequestPerPoll ==
  [][(DispatchStep /\ last'.src = "tcp")
       => LET buffered == serverClients[last'.slot].inbuf
          IN /\ pc = "svc" /\ last'.slot = svcIdx
             /\ OncePerSlot(last'.iter)
             /\ last'.command = Head(buffered)
             /\ Len(last'.details) <= MAX_REQUEST_LENGTH
             /\ last'.details = Take(Tail(buffered), Len(last'.details))
             /\ last'.wire = Println(last'.response)
             /\ serverClients'[last'.slot].inbuf = <<>>]_vars

\* two requests sent back to back were serviced as one, and the next poll
\* has passed their slot without dispatching anything
C14_Witness ==
  /\ last.src = "tcp"
  /\ last.input = BackToBack
  /\ last.command = "S"
  /\ last.iter = <<>>
  /\ pc = "svc"
  /\ svcIdx = 1
  /\ serverClients[0].conn

\* the slots of the TCP requests in it ascend
Ascending(it) ==
  \A a, b \in 1..Len(it) :
    (a < b /\ it[a].src = "tcp" /\ it[b].src = "tcp") => it[a].slot < it[b].slot

\* C15: within one poll the slots are serviced in ascending order: a slot
\* that holds a request when its turn comes is dispatched then, before any
\* higher slot, and its state change is in place when a higher slot is
\* dispatched ('Z' in slot 0, 'Q' in slot 1 in the same poll: the 'Q' is
\* answered from the counters as the 'Z' left them).
C15_AscendingService ==
  [][/\ (ServiceStep /\ Serviceable(serverClients[svcIdx])
           /\ serverClients[svcIdx].inbuf # <<>>)
          => DispatchStep /\ last'.src = "tcp" /\ last'.slot = svcIdx
     /\ (ServiceStep /\ svcIdx' = svcIdx + 1)
          => \A k \in 1..Len(last'.iter) :
               last'.iter[k].src = "tcp" => last'.iter[k].slot < svcIdx'
     /\ (DispatchStep /\ last'.src = "tcp")
          => /\ Ascending(last'.iter)
             /\ (last.iter # <<>> /\ last.command = "Z" /\ last'.command = "Q"
                   /\ sinceZ = "clean")
                  => last'.response = ZeroCounts]_vars

\* 'Z' in slot 0 and 'Q' in slot 1 were dispatched in one poll, and the 'Q'
\* was answered with zeros
C15_Witness ==
  /\ last.iter = <<[src |-> "tcp", slot |-> 0, command |-> "Z"],
                   [src |-> "tcp", slot |-> 1, command |-> "Q"]>>
  /\ last.response = ZeroCounts

\* slot i is empty or holds a disconnected session
Reusable(i) == serverClients[i].id = 0 \/ ~serverClients[i].conn

\* C16: with a connection pending and some slot empty or disconnected, the
\* accept phase stores the new connection in the lowest such slot, the
\* handle that slot held is closed, and every other slot is left as it is.
C16_LowestFreeSlot ==
  [][(AcceptStep /\ pending # <<>> /\ \E i \in Slots : Reusable(i))
       => \E j \in Slots :
            /\ Reusable(j)
            /\ \A i \in Slots : i < j => ~Reusable(i)
            /\ serverClients'[j] = [id |-> Head(pending).id, conn |-> TRUE,
                                    inbuf |-> Head(pending).inbuf]
            /\ serverClients[j].id # 0 => serverClients[j].id \in stopped'
            /\ Head(pending).id \notin stopped'
            /\ \A i \in Slots \ {j} : serverClients'[i] = serverClients[i]
            /\ pending' = Tail(pending)]_vars

\* the third client took slot 1 from the second one, which had gone away,
\* while slot 0 is connected and slot 2 has never been used
C16_Witness ==
  /\ acc = "accepted"
  /\ serverClients[0].conn
  /\ serverClients[1].id = 3
  /\ serverClients[2].id = 0
  /\ 2 \in stopped

\* a slot handle that is open before the step and closed after it
ClosedInStep(i) ==
  /\ serverClients[i].id # 0
  /\ serverClients[i].id \notin stopped
  /\ serverClients[i].id \in stopped'

\* C17: the service phase skips a slot whose session is disconnected: no
\* read, no dispatch, no write, and the handle neither closed nor cleared;
\* a slot's handle is closed only by an accept phase that gives the slot to
\* a new connection.
C17_LazyReclamation ==
  [][/\ (ServiceStep /\ serverClients[svcIdx].id # 0 /\ ~serverClients[svcIdx].conn)
          => /\ ~DispatchStep
             /\ last' = last
             /\ serverClients' = serverClients
             /\ stopped' = stopped
     /\ ServiceStep => stopped' = stopped
     /\ \A i \in Slots :
          ClosedInStep(i)
            => /\ AcceptStep
               /\ pending # <<>>
               /\ ~serverClients[i].conn
               /\ serverClients'[i].id = Head(pending).id
               /\ serverClients'[i].conn]_vars

\* the service loop has passed a disconnected session that holds unread
\* bytes, and its handle is still open
C17_Witness ==
  /\ pc = "svc"
  /\ svcIdx = 1
  /\ serverClients[0].id # 0
  /\ ~serverClients[0].conn
  /\ serverClients[0].inbuf # <<>>
  /\ serverClients[0].id \notin stopped
  /\ last.iter = <<>>

\* the steps of loop() from one position to the next
LoopOrder ==
  {<<"boot", "held">>, <<"boot", "bt">>, <<"reset", "held">>, <<"reset", "bt">>,
   <<"held", "boot">>, <<"held", "bt">>, <<"bt", "accept">>, <<"accept", "svc">>,
   <<"svc", "reset">>}

\* C18: one iteration of loop() handles the reset button first, then
\* services the serial channel, then runs the TCP accept phase, then the TCP
\* service phase: a request buffered on the serial channel is dispatched
\* before any TCP request of the same iteration, and a connection accepted
\* in an iteration has the request it already holds serviced in that
\* iteration.
C18_LoopOrder ==
  [][/\ pc' # pc => <<pc, pc'>> \in LoopOrder
     /\ (pc = "bt" /\ pc' # "bt" /\ btIn # <<>>)
          => DispatchStep /\ last'.src = "bt"
     /\ (DispatchStep /\ last'.src = "bt") => pc = "bt" /\ last'.iter[1].src = "bt"
     /\ (DispatchStep /\ last'.src = "tcp")
          => /\ pc = "svc"
             /\ \A k \in 2..Len(last'.iter) : last'.iter[k].src = "tcp"
     /\ (AcceptStep /\ pending # <<>> /\ Head(pending).inbuf # <<>>
           /\ \E i \in Slots : Reusable(i))
          => \E j \in Slots :
               /\ serverClients'[j].id = Head(pending).id
               /\ serverClients'[j].inbuf = Head(pending).inbuf
               /\ Serviceable(serverClients'[j])
               /\ svcIdx' <= j
               /\ pc' = "svc"
     /\ (ServiceStep /\ Serviceable(serverClients[svcIdx])
           /\ serverClients[svcIdx].inbuf # <<>>)
          => DispatchStep /\ last'.slot = svcIdx /\ last'.acc = acc]_vars

\* a 'Z' on the serial channel and the 'Q' of a client accepted in the same
\* iteration were dispatched in that iteration, the 'Z' first
C18_Witness ==
  /\ last.iter = <<[src |-> "bt", slot |-> 0 - 1, command |-> "Z"],
                   [src |-> "tcp", slot |-> 0, command |-> "Q"]>>
  /\ last.acc = "accepted"
  /\ last.response = ZeroCounts
  /\ nextId = 2

\* C19: for every request decoded from a transport exactly one response
\* is written, to the transport the request came from, which held the
\* request; nothing is written to another slot or to the other transport,
\* and nothing is written without a request (on the serial channel the
\* listing of '?' goes out before the response, on the same channel).
C19_Routing ==
  [][/\ DispatchStep
          => LET o == last'.out
                 origin == [src |-> last'.src, slot |-> last'.slot]
             IN /\ last'.input # <<>>
                /\ last'.input = IF last'.src = "bt" THEN btIn
                                  ELSE serverClients[last'.slot].inbuf
                /\ last'.src = "tcp" => Serviceable(serverClients[last'.slot])
                /\ \A k \in 1..Len(o) : o[k].to = origin
                /\ o[Len(o)].text = Println(last'.response)
                /\ Len(o) = IF last'.src = "bt" /\ last'.command = "?" THEN 2 ELSE 1
     /\ (~DispatchStep /\ ~RestartStep) => last'.out = last.out]_vars

\* with two clients connected, a request of the client in slot 1 was
\* answered
C19_Witness ==
  /\ last.src = "tcp"
  /\ last.slot = 1
  /\ last.out = <<[to |-> [src |-> "tcp", slot |-> 1], text |-> Println(last.response)]>>
  /\ serverClients[0].conn
  /\ serverClients[1].conn

\* the steps of the frame: a counter moves, a tick, a 'Z', the reset button
\* read asserted, a session goes away
CountersChange == azCount' # azCount \/ altCount' # altCount
TickStep == ticks' = ticks + 1
ZStep == DispatchStep /\ last'.command = "Z"
ResetPress == pc \in {"boot", "reset"} /\ pc' = "held"
DisconnectStep ==
  \E i \in Slots : serverClients[i].conn /\ ~serverClients'[i].conn /\ ~RestartStep

\* the two resolutions as the configuration holds them
Resolutions(cf) == <<cf.azsteps, cf.alsteps>>

\* a step that dispatches an 'S' whose details hold a pair
SStored == DispatchStep /\ last'.command = "S" /\ Sscanf(last'.details).n = 2

\* the counters change only by a tick, a 'Z', a reset press or a restart;
\* other commands and the session events leave them alone
CounterFrame ==
  /\ CountersChange => TickStep \/ ZStep \/ ResetPress \/ RestartStep
  /\ (DispatchStep /\ last'.command # "Z") => ~CountersChange
  /\ (AcceptStep \/ DisconnectStep) => ~CountersChange

DispatchOf(src, slot, input) ==
  /\ DispatchStep
  /\ last'.src = src
  /\ last'.slot = slot
  /\ last'.input = input
  /\ \E k \in 1..Len(last'.out) :
       /\ last'.out[k].to = [src |-> src, slot |-> slot]
       /\ last'.out[k].text = Println(last'.response)

Claimed == {i \in Slots : serverClients'[i].id # serverClients[i].id}

\* C22: one poll takes at most one pending connection off the listener:
\* the accept phase removes the oldest pending connection and nothing else
\* (into one slot, or closed at once when no slot is free), the others stay
\* pending in their order, also when several slots are free; no other step
\* of loop() short of a restart takes a connection off the listener; and no
\* handle is held by two slots at the same time.
C22_OneAcceptPerPoll ==
  /\ [](\A i, j \in Slots :
          i # j /\ serverClients[i].id # 0 => serverClients[i].id # serverClients[j].id)
  /\ [][/\ (AcceptStep /\ pending = <<>>)
            => pending' = pending /\ serverClients' = serverClients
        /\ (AcceptStep /\ pending # <<>>)
            => /\ pending' = Tail(pending)
               /\ \/ /\ acc' = "accepted"
                     /\ \E i \in Slots :
                          /\ Claimed = {i}
                          /\ serverClients'[i].id = Head(pending).id
                          /\ serverClients'[i].conn
                     /\ Head(pending).id \notin stopped'
                  \/ /\ acc' = "rejected"
                     /\ Claimed = {}
                     /\ Head(pending).id \in stopped'
        /\ (~AcceptStep /\ ~RestartStep)
            => /\ Len(pending') >= Len(pending)
               /\ SubSeq(pending', 1, Len(pending)) = pending
               /\ Claimed = {}]_vars

\* two connections were pending with every slot free; the accept phase has
\* taken the older one into slot 0, the other is still pending and slots 1
\* and 2 are still free
C22_Witness ==
  /\ pc = "svc"
  /\ acc = "accepted"
  /\ serverClients[0].id = 1
  /\ serverClients[1].id = 0
  /\ serverClients[2].id = 0
  /\ Len(pending) = 1
  /\ pending[1].id = 2

====
